---------------------------- MODULE Spec2Model ----------------------------
(***************************************************************************)
(* CareerCraft: the text-turn interview of views/InterviewSimulator.tsx    *)
(* (lines 1-237) as a state machine.  The state is the component's React   *)
(* state plus the remote requests whose promises are still pending; each   *)
(* event handler and each continuation after an await is one action.       *)
(***************************************************************************)
EXTENDS Integers, Sequences, FiniteSets, Bags, TLC

(***************************************************************************)
(* Bounds and constants                                                    *)
(***************************************************************************)
\* const totalQuestions = 5
totalQuestions == 5

\* Largest number of remote requests pending at once (the code has no limit).
MaxInFlight == 2

(***************************************************************************)
(* Values                                                                  *)
(***************************************************************************)
\* Text is a sequence of characters; " " is white space.
WhiteSpace == {" "}

\* useState<string | null>(null) for error
Null == "null"

\* useState<InterviewSummary | null>(null)
NoSummary == <<>>

\* What the optional company name and job description fields can hold.
OptionalTexts == {<<>>, <<"c">>}

\* An argument the caller did not pass: a value no text field can hold.
Undefined == <<"undefined">>

\* What the user can type into the job title input.
JobTitles == {<<>>, <<" ">>, <<"p">>}

\* What the user can type into the answer textarea.
Drafts == {<<>>, <<" ">>, <<"a">>}

\* Question texts the remote model can return.
Questions == {<<"q">>}

\* InterviewFeedback values the remote model can return.
Feedbacks == {[clarity |-> <<"c">>, confidence |-> <<"c">>, relevance |-> <<"r">>]}

\* InterviewSummary values the remote model can return.
Summaries ==
    {[overallScore |-> score, strengths |-> <<<<"s">>>>, areasForImprovement |-> <<<<"i">>>>] :
        score \in {1, 100}}

\* Messages of the Error objects the handlers can see.
JobTitleRequired == "Please enter a job title to begin."
InterviewResponseError == "Failed to get interview response from AI."
InterviewSummaryError == "Failed to get interview summary. Please try again."

\* { role: 'model', content }
ModelMessage(content) == [role |-> "model", content |-> content]

\* { role: 'user', content }
UserMessage(content) == [role |-> "user", content |-> content]

\* msg.feedback is set
HasFeedback(msg) == "feedback" \in DOMAIN msg

(***************************************************************************)
(* Pure helpers                                                            *)
(***************************************************************************)
RECURSIVE TrimStart(_)
TrimStart(s) ==
    IF s # <<>> /\ Head(s) \in WhiteSpace THEN TrimStart(Tail(s)) ELSE s

RECURSIVE TrimEnd(_)
TrimEnd(s) ==
    IF s # <<>> /\ s[Len(s)] \in WhiteSpace
    THEN TrimEnd(SubSeq(s, 1, Len(s) - 1))
    ELSE s

\* String.prototype.trim
trim(s) == TrimEnd(TrimStart(s))

\* prev.slice(0, -1)
SliceOffLast(prev) ==
    IF prev = <<>> THEN <<>> ELSE SubSeq(prev, 1, Len(prev) - 1)

\* The updater of setHistory after a next-turn response; it reads
\* updatedHistory[updatedHistory.length - 1].role, which throws on [].
UpdaterThrows(prev) == prev = <<>>

AttachFeedbackAndAsk(prev, feedback, nextQuestion) ==
    LET n == Len(prev)
        updatedHistory ==
            IF prev[n].role = "user"
            THEN [prev EXCEPT ![n] = [role |-> "user",
                                      content |-> prev[n].content,
                                      feedback |-> feedback]]
            ELSE prev
    IN  Append(updatedHistory, ModelMessage(nextQuestion))

\* Number of messages of one role in a transcript.
CountRole(h, role) == Cardinality({i \in DOMAIN h : h[i].role = role})


(***************************************************************************)
(* services/geminiService.ts                                               *)
(***************************************************************************)
AnalysisError == "Failed to get analysis from AI. Please try again."

\* response.text: text JSON.parse rejects, or the text of a JSON document.
NotJSON == [json |-> FALSE]
JSONText(value) == [json |-> TRUE, value |-> value]

\* How a try block ends.
Thrown(e) == [threw |-> TRUE, error |-> e]
Returned(v) == [threw |-> FALSE, value |-> v]

\* JSON.parse(text): the value of the document, or a SyntaxError.
JSONparse(text) ==
    IF text.json THEN Returned(text.value) ELSE Thrown("SyntaxError")

\* How ai.models.generateContent settles: it rejects (the transport failed)
\* or it resolves with a response.
TransportFailure == [rejected |-> TRUE]
Response(text) == [rejected |-> FALSE, text |-> text]

\* const response = await ai.models.generateContent(...);
\* return JSON.parse(response.text);
ParsedCompletion(outcome) ==
    IF outcome.rejected THEN Thrown("TransportError") ELSE JSONparse(outcome.text)

\* The first turn of getInterviewResponse: response.text is returned as the
\* question without being parsed.
FreeTextCompletion(outcome) ==
    IF outcome.rejected
    THEN Thrown("TransportError")
    ELSE Returned([feedback |-> Null, nextQuestion |-> outcome.text])

\* A catch block that lets the error it caught through.
Catch_Rethrow(attempt, message) == attempt

\* catch (error) { console.error(...); throw new Error(message); }
Catch(attempt, message) ==
    IF attempt.threw THEN Thrown(message) ELSE attempt

\* history.map(msg => `${role label}: ${msg.content}`).join('\n'), one line
\* per message.
Transcript(h) ==
    [i \in DOMAIN h |->
        <<IF h[i].role = "user" THEN "Candidate" ELSE "Interviewer", h[i].content>>]

\* `${x ? ... x ... : ''}` of the prompt templates
Truthy(x) == x # Undefined /\ x # <<>>

\* The prompt of analyzeResume.
ResumePrompt(text, title) == [jobTitle |-> title, resumeText |-> text]

\* The prompt of getInterviewResponse.
InterviewPrompt(h, title, company, description) ==
    [jobTitle |-> title,
     companyName |-> IF Truthy(company) THEN company ELSE <<>>,
     jobDescription |-> IF Truthy(description) THEN description ELSE <<>>,
     transcript |-> Transcript(h),
     isFirstTurn |-> (Len(h) = 0)]

\* The prompt of getInterviewSummary.
SummaryPrompt(h, title) == [jobTitle |-> title, transcript |-> Transcript(h)]

analyzeResume(outcome) == Catch(ParsedCompletion(outcome), AnalysisError)

getInterviewResponse(h, outcome) ==
    Catch(IF Len(h) = 0 THEN FreeTextCompletion(outcome) ELSE ParsedCompletion(outcome),
          InterviewResponseError)

getInterviewSummary(outcome) ==
    Catch(ParsedCompletion(outcome), InterviewSummaryError)

\* required: [...] of resumeSchema, interviewTurnSchema (and of its feedback
\* object) and interviewSummarySchema
resumeRequired ==
    {"score", "strengths", "weaknesses", "atsKeywords", "actionableImprovements"}
interviewTurnRequired == {"feedback", "nextQuestion"}
feedbackRequired == {"clarity", "confidence", "relevance"}
interviewSummaryRequired == {"overallScore", "strengths", "areasForImprovement"}

\* The document has every field the schema requires.
HasRequired(value, required) == required \subseteq DOMAIN value


(***************************************************************************)
(* What the endpoint can answer                                            *)
(***************************************************************************)
\* Integers the endpoint can put in a score field: the schemas say INTEGER
\* and give the range only in the description.
Scores == {0, 100, 150}

\* Lists of text the endpoint can put in an ARRAY of STRING field.
StringLists == {<<>>, <<<<"*", "*", "s">>, <<"t">>>>}

\* Documents that have every field resumeSchema requires.
ResumeAnalyses ==
    [score : Scores, strengths : StringLists, weaknesses : StringLists,
     atsKeywords : StringLists, actionableImprovements : StringLists]

\* Documents the endpoint can answer analyzeResume with.
ResumeDocuments ==
    ResumeAnalyses \cup
    {[score |-> 100],
     [strengths |-> <<>>, weaknesses |-> <<>>, atsKeywords |-> <<>>,
      actionableImprovements |-> <<>>]}

\* Documents the endpoint can answer a later turn of getInterviewResponse with.
TurnDocuments ==
    [feedback : Feedbacks, nextQuestion : Questions] \cup
    {[nextQuestion |-> <<"q">>],
     [feedback |-> [clarity |-> <<"c">>], nextQuestion |-> <<"q">>]}

\* Documents the endpoint can answer getInterviewSummary with.
SummaryDocuments ==
    [overallScore : Scores, strengths : StringLists,
     areasForImprovement : StringLists] \cup
    {[overallScore |-> 100], [strengths |-> <<>>, areasForImprovement |-> <<>>]}

\* How a call of the endpoint can settle, given the documents it can answer.
Outcomes(documents) ==
    {TransportFailure, Response(NotJSON)} \cup
    {Response(JSONText(d)) : d \in documents}

(***************************************************************************)
(* State                                                                   *)
(***************************************************************************)
VARIABLES
    phase,          \* 'setup' | 'live' | 'summary'
    jobTitle,
    companyName,
    jobDescription,
    history,        \* InterviewMessage[]
    currentAnswer,
    isLoading,
    error,
    summary,
    questionCount,
    inflight,       \* bag of the remote requests whose promise is pending
    mounted,        \* FALSE once a render has thrown and React removed the tree
    lastOp          \* the last handler or continuation that ran, and the phase it ran in

\* The state of the text-turn interview view.
interviewVars == <<phase, jobTitle, companyName, jobDescription, history,
                   currentAnswer, isLoading, error, summary, questionCount,
                   inflight, mounted, lastOp>>

\* The state of the resume view (views/ResumeAnalyzer.tsx)
VARIABLES
    resumeText,
    resumeJobTitle, \* jobTitle of ResumeAnalyzer
    analysis,       \* ResumeAnalysisResult | null
    resumeIsLoading,
    resumeError,
    resumeInflight, \* bag of the pending analyzeResume calls
    resumeMounted,  \* FALSE once rendering the analysis has thrown
    resumeLastOp    \* the last handler or continuation of the resume view

resumeVars == <<resumeText, resumeJobTitle, analysis, resumeIsLoading,
                resumeError, resumeInflight, resumeMounted, resumeLastOp>>

\* One call of a function of services/geminiService.ts: its arguments, what
\* the endpoint did, and what the caller got back.
VARIABLE call

\* The state of the voice interview view (InterviewSimulator.tsx, second
\* variant)
VARIABLES
    voicePhase,         \* phase
    voiceJobTitle,      \* jobTitle
    voiceHistory,       \* history
    voiceError,         \* error
    voiceQuestionCount, \* questionCount
    isConnecting,
    session,            \* sessionPromiseRef.current, with what its callbacks captured
    voiceLastOp,        \* the last handler or callback of the voice view
    voiceSummary,       \* summary
    isRecording,
    currentInputTranscription,
    currentOutputTranscription,
    summaryCall,        \* the setTimeout of onmessage and the request it issues
    answeredTurns,      \* turnComplete messages processed since the start that
                        \* ended a turn with user input (at most totalQuestions)
    outputAudioContext, \* outputAudioContextRef.current: is there a context
    currentTime,        \* outputAudioContextRef.current.currentTime
    nextStartTime,      \* nextStartTimeRef.current
    audioSources,       \* audioSources.current
    scheduled           \* every source.start(when) so far, with its duration

\* The React state and the connection of the voice view
voiceState == <<voicePhase, voiceJobTitle, voiceHistory, voiceError,
                voiceQuestionCount, isConnecting, session, voiceLastOp,
                voiceSummary, isRecording, currentInputTranscription,
                currentOutputTranscription, summaryCall, answeredTurns>>

\* The audio output of the voice view
audioVars == <<outputAudioContext, currentTime, nextStartTime, audioSources,
               scheduled>>

voiceVars == <<voiceState, audioVars>>

vars == <<interviewVars, resumeVars, call, voiceVars>>

\* What a handler of the text-turn interview view cannot touch.
otherViews == <<resumeVars, call, voiceVars>>

Pending == BagCardinality(inflight)

\* The arguments of startInterview(jobTitle, companyName, jobDescription)
StartRequest ==
    [kind |-> "start", history |-> <<>>, jobTitle |-> jobTitle,
     companyName |-> companyName, jobDescription |-> jobDescription]

Op(name) == [op |-> name, from |-> phase]

\* useState<ResumeAnalysisResult | null>(null)
NoAnalysis == <<>>

ResumeInit ==
    /\ resumeText = <<>>
    /\ resumeJobTitle = <<>>
    /\ analysis = NoAnalysis
    /\ resumeIsLoading = FALSE
    /\ resumeError = Null
    /\ resumeInflight = EmptyBag
    /\ resumeMounted = TRUE
    /\ resumeLastOp = [op |-> "init"]

\* No function of the service has been called.
CallInit == call = [fn |-> "none"]

InterviewInit ==
    /\ phase = "setup"
    /\ jobTitle = <<>>
    /\ companyName = <<>>
    /\ jobDescription = <<>>
    /\ history = <<>>
    /\ currentAnswer = <<>>
    /\ isLoading = FALSE
    /\ error = Null
    /\ summary = NoSummary
    /\ questionCount = 0
    /\ inflight = EmptyBag
    /\ mounted = TRUE
    /\ lastOp = [op |-> "init", from |-> "setup"]

\* useRef<ReturnType<typeof ai.live.connect> | null>(null)
NoSession == [open |-> FALSE]

\* No summary timer is armed and no summary request is pending.
NoCall == [stage |-> "none"]

VoiceInit ==
    /\ voicePhase = "setup"
    /\ voiceJobTitle = <<>>
    /\ voiceHistory = <<>>
    /\ voiceError = Null
    /\ voiceQuestionCount = 0
    /\ isConnecting = FALSE
    /\ session = NoSession
    /\ voiceLastOp = [op |-> "init"]
    /\ voiceSummary = NoSummary
    /\ isRecording = FALSE
    /\ currentInputTranscription = <<>>
    /\ currentOutputTranscription = <<>>
    /\ summaryCall = NoCall
    /\ answeredTurns = 0
    /\ outputAudioContext = FALSE
    /\ currentTime = 0
    /\ nextStartTime = 0
    /\ audioSources = {}
    /\ scheduled = <<>>

Init == InterviewInit /\ ResumeInit /\ CallInit /\ VoiceInit

(***************************************************************************)
(* Input fields                                                            *)
(***************************************************************************)
\* onChange of the job title input of renderSetup
setJobTitle ==
    /\ mounted
    /\ phase = "setup"
    /\ \E t \in JobTitles : t # jobTitle /\ jobTitle' = t
    /\ lastOp' = Op("setJobTitle")
    /\ UNCHANGED otherViews
    /\ UNCHANGED <<phase, companyName, jobDescription, history, currentAnswer, isLoading, error, summary,
                   questionCount, inflight, mounted>>

\* onChange of the optional company name input of renderSetup
setCompanyName ==
    /\ mounted
    /\ phase = "setup"
    /\ \E t \in OptionalTexts : t # companyName /\ companyName' = t
    /\ lastOp' = Op("setCompanyName")
    /\ UNCHANGED otherViews
    /\ UNCHANGED <<phase, jobTitle, jobDescription, history, currentAnswer,
                   isLoading, error, summary, questionCount, inflight, mounted>>

\* onChange of the optional job description textarea of renderSetup
setJobDescription ==
    /\ mounted
    /\ phase = "setup"
    /\ \E t \in OptionalTexts : t # jobDescription /\ jobDescription' = t
    /\ lastOp' = Op("setJobDescription")
    /\ UNCHANGED otherViews
    /\ UNCHANGED <<phase, jobTitle, companyName, history, currentAnswer,
                   isLoading, error, summary, questionCount, inflight, mounted>>

\* onChange of the answer textarea of renderLive (disabled while isLoading)
setCurrentAnswer ==
    /\ mounted
    /\ phase = "live"
    /\ ~isLoading
    /\ \E d \in Drafts : d # currentAnswer /\ currentAnswer' = d
    /\ lastOp' = Op("setCurrentAnswer")
    /\ UNCHANGED otherViews
    /\ UNCHANGED <<phase, jobTitle, companyName, jobDescription, history, isLoading, error, summary,
                   questionCount, inflight, mounted>>

(***************************************************************************)
(* handleStartInterview                                                    *)
(***************************************************************************)
\* StartCall without the test of the job title.
StartCall_NoCheck(loading) ==
    /\ Pending < MaxInFlight
    /\ isLoading' = TRUE
    /\ error' = Null
    /\ inflight' = inflight (+) SetToBag({StartRequest})

\* The synchronous part of handleStartInterview, up to the await; loading is
\* the value of isLoading the caller has queued before the call.
StartCall(loading) ==
    IF jobTitle = <<>>
    THEN /\ error' = JobTitleRequired
         /\ isLoading' = loading
         /\ inflight' = inflight
    ELSE /\ Pending < MaxInFlight
         /\ isLoading' = TRUE
         /\ error' = Null
         /\ inflight' = inflight (+) SetToBag({StartRequest})

\* A submit event reaches the setup form; the button is disabled while
\* isLoading.  The `required` attribute of the job title input stops only
\* the browser's own interactive submission, so the handler tests the title
\* itself and the event can arrive with any title.
handleStartInterview ==
    /\ mounted
    /\ phase = "setup"
    /\ ~isLoading
    /\ StartCall(isLoading)
    /\ lastOp' = Op("handleStartInterview")
    /\ UNCHANGED otherViews
    /\ UNCHANGED <<phase, jobTitle, companyName, jobDescription, history, currentAnswer, summary,
                   questionCount, mounted>>

\* await startInterview(...) resolved with the first question
startInterviewResolved ==
    \E req \in BagToSet(inflight), firstQuestion \in Questions :
        /\ req.kind = "start"
        /\ inflight' = inflight (-) SetToBag({req})
        /\ lastOp' = Op("startInterviewResolved")
        /\ UNCHANGED otherViews
        /\ IF mounted
           THEN /\ history' = <<ModelMessage(firstQuestion)>>
                /\ phase' = "live"
                /\ questionCount' = 1
                /\ isLoading' = FALSE
                /\ UNCHANGED <<jobTitle, companyName, jobDescription, currentAnswer, error, summary, mounted>>
           ELSE UNCHANGED <<phase, jobTitle, companyName, jobDescription, history, currentAnswer, isLoading,
                            error, summary, questionCount, mounted>>

\* await startInterview(...) rejected
startInterviewRejected ==
    \E req \in BagToSet(inflight) :
        /\ req.kind = "start"
        /\ inflight' = inflight (-) SetToBag({req})
        /\ lastOp' = Op("startInterviewRejected")
        /\ UNCHANGED otherViews
        /\ IF mounted
           THEN /\ error' = InterviewResponseError
                /\ isLoading' = FALSE
                /\ UNCHANGED <<phase, jobTitle, companyName, jobDescription, history, currentAnswer, summary,
                               questionCount, mounted>>
           ELSE UNCHANGED <<phase, jobTitle, companyName, jobDescription, history, currentAnswer, isLoading,
                            error, summary, questionCount, mounted>>

(***************************************************************************)
(* handleAnswerSubmit                                                      *)
(***************************************************************************)
\* AnswerRequest with the budget test off by one (> for >=).
AnswerRequest_OffByOne(newHistory) ==
    [kind |-> IF questionCount > totalQuestions THEN "summary" ELSE "next",
     history |-> newHistory,
     jobTitle |-> jobTitle,
     companyName |-> Undefined,
     jobDescription |-> Undefined]

\* AnswerRequest passing the history of the render, without the new answer.
AnswerRequest_WithoutAnswer(newHistory) ==
    [kind |-> IF questionCount >= totalQuestions THEN "summary" ELSE "next",
     history |-> SliceOffLast(newHistory),
     jobTitle |-> jobTitle,
     companyName |-> Undefined,
     jobDescription |-> Undefined]

\* The request handleAnswerSubmit issues for newHistory: the summary once the
\* rendered questionCount has reached totalQuestions, else the next turn.
AnswerRequest(newHistory) ==
    [kind |-> IF questionCount >= totalQuestions THEN "summary" ELSE "next",
     history |-> newHistory,
     jobTitle |-> jobTitle,
     companyName |-> Undefined,
     jobDescription |-> Undefined]

\* handleAnswerSubmit testing the draft without trimming it.
handleAnswerSubmit_NoTrim ==
    /\ mounted
    /\ phase = "live"
    /\ ~isLoading
    /\ lastOp' = Op("handleAnswerSubmit")
    /\ UNCHANGED otherViews
    /\ IF currentAnswer = <<>>
       THEN UNCHANGED <<phase, jobTitle, companyName, jobDescription, history,
                        currentAnswer, isLoading, error, summary, questionCount,
                        inflight, mounted>>
       ELSE LET newHistory == Append(history, UserMessage(currentAnswer))
            IN  /\ Pending < MaxInFlight
                /\ history' = newHistory
                /\ currentAnswer' = <<>>
                /\ isLoading' = TRUE
                /\ inflight' = inflight (+) SetToBag({AnswerRequest(newHistory)})
                /\ UNCHANGED <<phase, jobTitle, companyName, jobDescription,
                               error, summary, questionCount, mounted>>

\* handleAnswerSubmit also calling setError(null) before the request.
handleAnswerSubmit_ClearsError ==
    /\ mounted
    /\ phase = "live"
    /\ ~isLoading
    /\ lastOp' = Op("handleAnswerSubmit")
    /\ UNCHANGED otherViews
    /\ IF trim(currentAnswer) = <<>>
       THEN UNCHANGED <<phase, jobTitle, companyName, jobDescription, history,
                        currentAnswer, isLoading, error, summary, questionCount,
                        inflight, mounted>>
       ELSE LET newHistory == Append(history, UserMessage(currentAnswer))
            IN  /\ Pending < MaxInFlight
                /\ history' = newHistory
                /\ currentAnswer' = <<>>
                /\ isLoading' = TRUE
                /\ error' = Null
                /\ inflight' = inflight (+) SetToBag({AnswerRequest(newHistory)})
                /\ UNCHANGED <<phase, jobTitle, companyName, jobDescription,
                               summary, questionCount, mounted>>

\* Send is clicked or Enter is pressed in the textarea (both disabled while
\* isLoading); the synchronous part of the handler, up to the await.
handleAnswerSubmit ==
    /\ mounted
    /\ phase = "live"
    /\ ~isLoading
    /\ lastOp' = Op("handleAnswerSubmit")
    /\ UNCHANGED otherViews
    /\ IF trim(currentAnswer) = <<>>
       THEN UNCHANGED <<phase, jobTitle, companyName, jobDescription, history, currentAnswer, isLoading,
                        error, summary, questionCount, inflight, mounted>>
       ELSE LET newHistory == Append(history, UserMessage(currentAnswer))
            IN  /\ Pending < MaxInFlight
                /\ history' = newHistory
                /\ currentAnswer' = <<>>
                /\ isLoading' = TRUE
                /\ inflight' = inflight (+) SetToBag({AnswerRequest(newHistory)})
                /\ UNCHANGED <<phase, jobTitle, companyName, jobDescription, error, summary, questionCount,
                               mounted>>

\* await getNextInterviewStep(...) resolved with { feedback, nextQuestion }
getNextInterviewStepResolved ==
    \E req \in BagToSet(inflight), feedback \in Feedbacks, nextQuestion \in Questions :
        /\ req.kind = "next"
        /\ inflight' = inflight (-) SetToBag({req})
        /\ lastOp' = Op("getNextInterviewStepResolved")
        /\ UNCHANGED otherViews
        /\ IF ~mounted
           THEN UNCHANGED <<phase, jobTitle, companyName, jobDescription, history, currentAnswer, isLoading,
                            error, summary, questionCount, mounted>>
           ELSE IF UpdaterThrows(history)
           THEN /\ mounted' = FALSE
                /\ UNCHANGED <<phase, jobTitle, companyName, jobDescription, history, currentAnswer, isLoading,
                               error, summary, questionCount>>
           ELSE /\ history' = AttachFeedbackAndAsk(history, feedback, nextQuestion)
                /\ questionCount' = questionCount + 1
                /\ isLoading' = FALSE
                /\ UNCHANGED <<phase, jobTitle, companyName, jobDescription, currentAnswer, error, summary,
                               mounted>>

\* The catch block also sending the user back to the setup form.
AnswerRejected_ToSetup(message) ==
    /\ error' = message
    /\ history' = SliceOffLast(history)
    /\ isLoading' = FALSE
    /\ phase' = "setup"
    /\ UNCHANGED <<jobTitle, companyName, jobDescription, currentAnswer, summary, questionCount, mounted>>

\* The catch and finally blocks of handleAnswerSubmit.
AnswerRejected(message) ==
    /\ error' = message
    /\ history' = SliceOffLast(history)
    /\ isLoading' = FALSE
    /\ UNCHANGED <<phase, jobTitle, companyName, jobDescription, currentAnswer, summary, questionCount, mounted>>

\* await getNextInterviewStep(...) rejected
getNextInterviewStepRejected ==
    \E req \in BagToSet(inflight) :
        /\ req.kind = "next"
        /\ inflight' = inflight (-) SetToBag({req})
        /\ lastOp' = Op("getNextInterviewStepRejected")
        /\ UNCHANGED otherViews
        /\ IF mounted
           THEN AnswerRejected(InterviewResponseError)
           ELSE UNCHANGED <<phase, jobTitle, companyName, jobDescription, history, currentAnswer, isLoading,
                            error, summary, questionCount, mounted>>

\* await getInterviewSummary(...) resolved
getInterviewSummaryResolved ==
    \E req \in BagToSet(inflight), summaryResult \in Summaries :
        /\ req.kind = "summary"
        /\ inflight' = inflight (-) SetToBag({req})
        /\ lastOp' = Op("getInterviewSummaryResolved")
        /\ UNCHANGED otherViews
        /\ IF mounted
           THEN /\ summary' = summaryResult
                /\ phase' = "summary"
                /\ isLoading' = FALSE
                /\ UNCHANGED <<jobTitle, companyName, jobDescription, history, currentAnswer, error,
                               questionCount, mounted>>
           ELSE UNCHANGED <<phase, jobTitle, companyName, jobDescription, history, currentAnswer, isLoading,
                            error, summary, questionCount, mounted>>

\* await getInterviewSummary(...) rejected
getInterviewSummaryRejected ==
    \E req \in BagToSet(inflight) :
        /\ req.kind = "summary"
        /\ inflight' = inflight (-) SetToBag({req})
        /\ lastOp' = Op("getInterviewSummaryRejected")
        /\ UNCHANGED otherViews
        /\ IF mounted
           THEN AnswerRejected(InterviewSummaryError)
           ELSE UNCHANGED <<phase, jobTitle, companyName, jobDescription, history, currentAnswer, isLoading,
                            error, summary, questionCount, mounted>>

(***************************************************************************)
(* resetInterview and restartWithSameRole                                  *)
(***************************************************************************)
\* resetInterview without its setIsLoading(false).
resetInterview_KeepsLoading ==
    /\ mounted
    /\ phase \in {"live", "summary"}
    /\ history' = <<>>
    /\ currentAnswer' = <<>>
    /\ error' = Null
    /\ summary' = NoSummary
    /\ questionCount' = 0
    /\ phase' = "setup"
    /\ lastOp' = Op("resetInterview")
    /\ UNCHANGED otherViews
    /\ UNCHANGED <<jobTitle, companyName, jobDescription, isLoading, inflight, mounted>>

\* The back button of renderLive and "Try Another Role" of renderSummary;
\* neither is ever disabled.
resetInterview ==
    /\ mounted
    /\ phase \in {"live", "summary"}
    /\ history' = <<>>
    /\ currentAnswer' = <<>>
    /\ isLoading' = FALSE
    /\ error' = Null
    /\ summary' = NoSummary
    /\ questionCount' = 0
    /\ phase' = "setup"
    /\ lastOp' = Op("resetInterview")
    /\ UNCHANGED otherViews
    /\ UNCHANGED <<jobTitle, companyName, jobDescription, inflight, mounted>>

\* "Restart Interview" of renderSummary, never disabled: the six setters,
\* then handleStartInterview with the job title of this render.
restartWithSameRole ==
    /\ mounted
    /\ phase = "summary"
    /\ history' = <<>>
    /\ currentAnswer' = <<>>
    /\ summary' = NoSummary
    /\ questionCount' = 0
    /\ StartCall(FALSE)
    /\ lastOp' = Op("restartWithSameRole")
    /\ UNCHANGED otherViews
    /\ UNCHANGED <<phase, jobTitle, companyName, jobDescription, mounted>>

Next ==
    \/ setJobTitle
    \/ setCompanyName
    \/ setJobDescription
    \/ setCurrentAnswer
    \/ handleStartInterview
    \/ startInterviewResolved
    \/ startInterviewRejected
    \/ handleAnswerSubmit
    \/ getNextInterviewStepResolved
    \/ getNextInterviewStepRejected
    \/ getInterviewSummaryResolved
    \/ getInterviewSummaryRejected
    \/ resetInterview
    \/ restartWithSameRole

Spec == Init /\ [][Next]_vars

(***************************************************************************)
(* The run of the happy path: the user fills the form, starts, types and   *)
(* sends answers; every remote call succeeds; nobody resets or restarts.   *)
(***************************************************************************)
NextHappy ==
    \/ setJobTitle
    \/ setCompanyName
    \/ setJobDescription
    \/ setCurrentAnswer
    \/ handleStartInterview
    \/ startInterviewResolved
    \/ handleAnswerSubmit
    \/ getNextInterviewStepResolved
    \/ getInterviewSummaryResolved

SpecHappy == Init /\ [][NextHappy]_vars


(***************************************************************************)
(* views/ResumeAnalyzer.tsx                                                *)
(***************************************************************************)
\* What the user can paste into the resume textarea.
ResumeTexts == {<<>>, <<" ">>, <<"r">>}

ValidationError == "Please provide your resume text and a target job title."

\* text.replace(/\*\*/g, ''): every pair of asterisks is dropped, left to right.
RECURSIVE cleanMarkdown(_)
cleanMarkdown(text) ==
    IF text = <<>> THEN <<>>
    ELSE IF Len(text) >= 2 /\ text[1] = "*" /\ text[2] = "*"
    THEN cleanMarkdown(SubSeq(text, 3, Len(text)))
    ELSE <<Head(text)>> \o cleanMarkdown(Tail(text))

\* FeedbackSection listing the items last to first.
FeedbackSection_Reversed(items) ==
    [i \in DOMAIN items |-> cleanMarkdown(items[Len(items) + 1 - i])]

\* The <li> elements of FeedbackSection: items.map(item => cleanMarkdown(item))
FeedbackSection(items) == [i \in DOMAIN items |-> cleanMarkdown(items[i])]

\* The list fields the result panel maps over.
listFields == {"strengths", "weaknesses", "atsKeywords", "actionableImprovements"}

\* Rendering the result panel reads .map of a field the stored value lacks.
RenderThrows(value) == value # NoAnalysis /\ ~(listFields \subseteq DOMAIN value)

\* What a handler of the resume view cannot touch.
notResume == <<interviewVars, call, voiceVars>>

\* onChange of the resume textarea
setResumeText ==
    /\ resumeMounted
    /\ \E t \in ResumeTexts : t # resumeText /\ resumeText' = t
    /\ resumeLastOp' = [op |-> "setResumeText"]
    /\ UNCHANGED <<resumeJobTitle, analysis, resumeIsLoading, resumeError,
                   resumeInflight, resumeMounted>>
    /\ UNCHANGED notResume

\* onChange of the target job title input
setResumeJobTitle ==
    /\ resumeMounted
    /\ \E t \in JobTitles : t # resumeJobTitle /\ resumeJobTitle' = t
    /\ resumeLastOp' = [op |-> "setResumeJobTitle"]
    /\ UNCHANGED <<resumeText, analysis, resumeIsLoading, resumeError,
                   resumeInflight, resumeMounted>>
    /\ UNCHANGED notResume

\* handleSubmit that does not trim before testing the two fields.
handleSubmit_NoTrim ==
    /\ resumeMounted
    /\ ~resumeIsLoading
    /\ resumeLastOp' = [op |-> "handleSubmit"]
    /\ IF resumeText = <<>> \/ resumeJobTitle = <<>>
       THEN /\ resumeError' = ValidationError
            /\ UNCHANGED <<analysis, resumeIsLoading, resumeInflight>>
       ELSE /\ resumeIsLoading' = TRUE
            /\ resumeError' = Null
            /\ analysis' = NoAnalysis
            /\ resumeInflight' = resumeInflight (+)
                    SetToBag({ResumePrompt(resumeText, resumeJobTitle)})
    /\ UNCHANGED <<resumeText, resumeJobTitle, resumeMounted>>
    /\ UNCHANGED notResume

\* A submit event reaches the form (the button is disabled while isLoading):
\* the synchronous part of handleSubmit, up to the await.
handleSubmit ==
    /\ resumeMounted
    /\ ~resumeIsLoading
    /\ resumeLastOp' = [op |-> "handleSubmit"]
    /\ IF trim(resumeText) = <<>> \/ trim(resumeJobTitle) = <<>>
       THEN /\ resumeError' = ValidationError
            /\ UNCHANGED <<analysis, resumeIsLoading, resumeInflight>>
       ELSE /\ resumeIsLoading' = TRUE
            /\ resumeError' = Null
            /\ analysis' = NoAnalysis
            /\ resumeInflight' = resumeInflight (+)
                    SetToBag({ResumePrompt(resumeText, resumeJobTitle)})
    /\ UNCHANGED <<resumeText, resumeJobTitle, resumeMounted>>
    /\ UNCHANGED notResume

\* await analyzeResume(...) resolved: setAnalysis(result), then the finally.
analyzeResumeResolved ==
    \E req \in BagToSet(resumeInflight), outcome \in Outcomes(ResumeDocuments) :
        LET result == analyzeResume(outcome)
        IN  /\ ~result.threw
            /\ resumeInflight' = resumeInflight (-) SetToBag({req})
            /\ resumeLastOp' = [op |-> "analyzeResumeResolved", outcome |-> outcome]
            /\ analysis' = result.value
            /\ resumeIsLoading' = FALSE
            /\ resumeMounted' = ~RenderThrows(result.value)
            /\ UNCHANGED <<resumeText, resumeJobTitle, resumeError>>
            /\ UNCHANGED notResume

\* await analyzeResume(...) rejected: setError(err.message), then the finally.
analyzeResumeRejected ==
    \E req \in BagToSet(resumeInflight), outcome \in Outcomes(ResumeDocuments) :
        LET result == analyzeResume(outcome)
        IN  /\ result.threw
            /\ resumeInflight' = resumeInflight (-) SetToBag({req})
            /\ resumeLastOp' = [op |-> "analyzeResumeRejected", outcome |-> outcome]
            /\ resumeError' = result.error
            /\ resumeIsLoading' = FALSE
            /\ UNCHANGED <<resumeText, resumeJobTitle, analysis, resumeMounted>>
            /\ UNCHANGED notResume

NextResume ==
    \/ setResumeText
    \/ setResumeJobTitle
    \/ handleSubmit
    \/ analyzeResumeResolved
    \/ analyzeResumeRejected

SpecResume == Init /\ [][NextResume]_vars


(***************************************************************************)
(* The functions of services/geminiService.ts, called on their own with    *)
(* every argument the views can pass and every way the endpoint can settle *)
(***************************************************************************)
\* Histories the callers pass: none yet, one exchange, two exchanges.
ServiceHistories ==
    {<<>>,
     <<ModelMessage(<<"q">>), UserMessage(<<"a">>)>>,
     <<ModelMessage(<<"q">>), UserMessage(<<"a">>),
       ModelMessage(<<"q">>), UserMessage(<<"b">>)>>}

\* The fixed message of each function's catch block.
ErrorOf(fn) ==
    CASE fn = "analyzeResume" -> AnalysisError
      [] fn = "getInterviewResponse" -> InterviewResponseError
      [] fn = "getInterviewSummary" -> InterviewSummaryError

callAnalyzeResume ==
    \E text \in ResumeTexts, title \in JobTitles,
       outcome \in Outcomes(ResumeDocuments) :
        /\ trim(text) # <<>>
        /\ trim(title) # <<>>
        /\ call' = [fn |-> "analyzeResume",
                    prompt |-> ResumePrompt(text, title),
                    outcome |-> outcome,
                    result |-> analyzeResume(outcome)]
        /\ UNCHANGED <<interviewVars, resumeVars, voiceVars>>

callGetInterviewResponse ==
    \E h \in ServiceHistories, title \in JobTitles \ {<<>>},
       company \in OptionalTexts \cup {Undefined},
       description \in OptionalTexts \cup {Undefined},
       outcome \in Outcomes(TurnDocuments) :
        /\ call' = [fn |-> "getInterviewResponse",
                    prompt |-> InterviewPrompt(h, title, company, description),
                    outcome |-> outcome,
                    result |-> getInterviewResponse(h, outcome)]
        /\ UNCHANGED <<interviewVars, resumeVars, voiceVars>>

callGetInterviewSummary ==
    \E h \in ServiceHistories \ {<<>>}, title \in JobTitles \ {<<>>},
       outcome \in Outcomes(SummaryDocuments) :
        /\ call' = [fn |-> "getInterviewSummary",
                    prompt |-> SummaryPrompt(h, title),
                    outcome |-> outcome,
                    result |-> getInterviewSummary(outcome)]
        /\ UNCHANGED <<interviewVars, resumeVars, voiceVars>>

NextService ==
    \/ callAnalyzeResume
    \/ callGetInterviewResponse
    \/ callGetInterviewSummary

SpecService == Init /\ [][NextService]_vars


(***************************************************************************)
(* views/InterviewSimulator.tsx, voice variant                             *)
(***************************************************************************)
ConnectionError == "A connection error occurred. Please try again."

MicrophoneError ==
    "Microphone access was denied. Please allow microphone access to use this feature."

\* Longest transcription accumulated between two turnComplete messages
MaxTranscript == 2

\* Longest transcript of the voice interview
MaxVoiceHistory == 2

\* Largest questionCount of the voice interview (the code has no limit)
MaxVoiceCount == 6

\* Largest currentTime of the output audio context
MaxTime == 3

\* Largest number of audio chunks played
MaxChunks == 3

\* serverContent.inputTranscription.text and outputTranscription.text
InputFragments == {<<"a">>, <<"b">>}

OutputFragments == {<<"q">>}

\* audioBuffer.duration of a decoded chunk
Durations == {1, 2}

\* A LiveServerMessage: the parts of it onmessage reads. An absent
\* transcription is the empty text, an absent audio part has duration 0.
Message(input, output, audio, interrupted, turnComplete) ==
    [inputTranscription |-> input, outputTranscription |-> output,
     audio |-> audio, interrupted |-> interrupted, turnComplete |-> turnComplete]

\* Messages of the conversation: transcriptions and ends of turns
TranscriptMessages ==
    {Message(input, output, 0, FALSE, turnComplete) :
        input \in {<<>>} \cup InputFragments,
        output \in {<<>>} \cup OutputFragments,
        turnComplete \in BOOLEAN}

\* Messages of the audio stream: chunks and interruptions
AudioMessages ==
    {Message(<<>>, <<>>, audio, interrupted, FALSE) :
        audio \in {0} \cup Durations, interrupted \in BOOLEAN}

\* What a handler of the voice view cannot touch.
notVoice == <<interviewVars, resumeVars, call>>

\* The connection ai.live.connect opens; its callbacks keep the values of
\* the render in which handleStartInterview was created. interval is the
\* setInterval that rotates the loading message.
Connect ==
    [open |-> TRUE,
     interval |-> TRUE,
     jobTitle |-> voiceJobTitle,
     history |-> voiceHistory,
     isConnecting |-> isConnecting,
     questionCount |-> voiceQuestionCount,
     currentInputTranscription |-> currentInputTranscription,
     currentOutputTranscription |-> currentOutputTranscription,
     isRecording |-> isRecording]

\* onChange of the job title input of the voice setup form (under the
\* full-screen loader while isConnecting)
setVoiceJobTitle ==
    /\ voicePhase = "setup"
    /\ ~isConnecting
    /\ \E t \in JobTitles : t # voiceJobTitle /\ voiceJobTitle' = t
    /\ voiceLastOp' = [op |-> "setJobTitle"]
    /\ UNCHANGED <<voicePhase, voiceHistory, voiceError, voiceQuestionCount,
                   isConnecting, session, voiceSummary, isRecording,
                   currentInputTranscription, currentOutputTranscription,
                   summaryCall, answeredTurns>>
    /\ UNCHANGED audioVars
    /\ UNCHANGED notVoice

\* A submit event reaches the voice setup form (under the full-screen loader
\* while isConnecting): handleStartInterview of the voice variant.
voiceHandleStartInterview ==
    /\ voicePhase = "setup"
    /\ ~isConnecting
    /\ voiceLastOp' = [op |-> "handleStartInterview"]
    /\ IF voiceJobTitle = <<>>
       THEN /\ voiceError' = JobTitleRequired
            /\ UNCHANGED <<isConnecting, session, outputAudioContext, currentTime,
                           answeredTurns>>
       ELSE /\ isConnecting' = TRUE
            /\ voiceError' = Null
            /\ outputAudioContext' = TRUE
            /\ currentTime' = 0
            /\ session' = Connect
            /\ answeredTurns' = 0
    /\ UNCHANGED <<voicePhase, voiceJobTitle, voiceHistory, voiceQuestionCount,
                   voiceSummary, isRecording, currentInputTranscription,
                   currentOutputTranscription, summaryCall>>
    /\ UNCHANGED <<nextStartTime, audioSources, scheduled>>
    /\ UNCHANGED notVoice

\* The onerror callback of the connection.
voiceOnerror ==
    /\ session.open
    /\ session' = [session EXCEPT !.open = FALSE, !.interval = FALSE]
    /\ voiceError' = ConnectionError
    /\ isConnecting' = FALSE
    /\ voiceLastOp' = [op |-> "onerror"]
    /\ UNCHANGED <<voicePhase, voiceJobTitle, voiceHistory, voiceQuestionCount,
                   voiceSummary, isRecording, currentInputTranscription,
                   currentOutputTranscription, summaryCall, answeredTurns>>
    /\ UNCHANGED audioVars
    /\ UNCHANGED notVoice

\* The onclose callback of the connection, when the remote end closes it:
\* stopRecording().
voiceOnclose ==
    /\ session.open
    /\ session' = [session EXCEPT !.open = FALSE]
    /\ isRecording' = FALSE
    /\ voiceLastOp' = [op |-> "onclose"]
    /\ UNCHANGED <<voicePhase, voiceJobTitle, voiceHistory, voiceError,
                   voiceQuestionCount, isConnecting, voiceSummary,
                   currentInputTranscription, currentOutputTranscription,
                   summaryCall, answeredTurns>>
    /\ UNCHANGED audioVars
    /\ UNCHANGED notVoice

Max(x, y) == IF x >= y THEN x ELSE y

\* The refs of the audio output that onmessage reads and writes
AudioOutput ==
    [nextStartTime |-> nextStartTime, audioSources |-> audioSources,
     scheduled |-> scheduled]

\* onmessage, the audio part: the chunk is decoded and started at
\* max(nextStartTime, currentTime), and nextStartTime moves past it.
playAudio(output, message) ==
    IF message.audio > 0 /\ outputAudioContext
    THEN LET when == Max(output.nextStartTime, currentTime)
             source == [id |-> Len(output.scheduled) + 1, when |-> when,
                        duration |-> message.audio]
         IN  [nextStartTime |-> when + message.audio,
              audioSources |-> output.audioSources \cup {source},
              scheduled |-> Append(output.scheduled, source)]
    ELSE output

\* The interrupted part without its nextStartTimeRef.current = 0.
interrupt_KeepsStartTime(output, message) ==
    IF message.interrupted
    THEN [output EXCEPT !.audioSources = {}]
    ELSE output

\* onmessage, the interrupted part: every source is stopped and deleted.
interrupt(output, message) ==
    IF message.interrupted
    THEN [output EXCEPT !.audioSources = {}, !.nextStartTime = 0]
    ELSE output

\* onmessage, the turnComplete part. finalInput, finalOutput, isConnecting,
\* questionCount, history and jobTitle are the constants of the render in
\* which the callback was created (session), not the current state.
turnComplete ==
    LET finalInput == session.currentInputTranscription
        finalOutput == session.currentOutputTranscription
        newQuestionCount == session.questionCount + 1
        finished == newQuestionCount >= totalQuestions /\ finalInput # <<>>
    IN  /\ newQuestionCount <= MaxVoiceCount
        /\ currentInputTranscription' = <<>>
        /\ currentOutputTranscription' = <<>>
        /\ voiceHistory' =
               voiceHistory
               \o (IF finalInput # <<>> THEN <<UserMessage(finalInput)>> ELSE <<>>)
               \o (IF finalOutput # <<>> THEN <<ModelMessage(finalOutput)>> ELSE <<>>)
        /\ Len(voiceHistory') <= MaxVoiceHistory
        /\ voiceQuestionCount' = newQuestionCount
        /\ voicePhase' = IF session.isConnecting THEN "live" ELSE voicePhase
        /\ isConnecting' =
               IF finished THEN TRUE
               ELSE IF session.isConnecting THEN FALSE ELSE isConnecting
        \* await startRecording(), then stopRecording() when finished
        /\ \E granted \in BOOLEAN :
               LET started == session.isConnecting /\ ~session.isRecording
               IN  /\ started \/ granted
                   /\ isRecording' =
                          IF finished THEN FALSE
                          ELSE IF started THEN granted ELSE isRecording
                   /\ voiceError' =
                          IF started /\ ~granted THEN MicrophoneError ELSE voiceError
        /\ session' = [session EXCEPT
                          !.open = ~finished,
                          !.interval = IF session.isConnecting THEN FALSE ELSE @]
        /\ summaryCall' =
               IF finished
               THEN [stage |-> "timer",
                     history |-> session.history
                                 \o <<UserMessage(finalInput), ModelMessage(finalOutput)>>,
                     jobTitle |-> session.jobTitle]
               ELSE summaryCall

\* The onmessage callback of the connection, for one message.
onmessageOf(message) ==
    /\ session.open
    /\ voiceLastOp' = [op |-> "onmessage", message |-> message]
    /\ message.audio > 0 => Len(scheduled) < MaxChunks
    /\ LET output == interrupt(playAudio(AudioOutput, message), message)
       IN  /\ nextStartTime' = output.nextStartTime
           /\ audioSources' = output.audioSources
           /\ scheduled' = output.scheduled
    /\ UNCHANGED <<outputAudioContext, currentTime>>
    /\ IF message.turnComplete
       THEN /\ turnComplete
            /\ answeredTurns' =
                   IF currentInputTranscription \o message.inputTranscription = <<>>
                      \/ answeredTurns = totalQuestions
                   THEN answeredTurns
                   ELSE answeredTurns + 1
       ELSE /\ currentInputTranscription' =
                   currentInputTranscription \o message.inputTranscription
            /\ currentOutputTranscription' =
                   currentOutputTranscription \o message.outputTranscription
            /\ Len(currentInputTranscription') <= MaxTranscript
            /\ Len(currentOutputTranscription') <= MaxTranscript
            /\ UNCHANGED <<voicePhase, voiceHistory, voiceError, voiceQuestionCount,
                           isConnecting, session, isRecording, summaryCall, answeredTurns>>
    /\ UNCHANGED <<voiceJobTitle, voiceSummary>>
    /\ UNCHANGED notVoice

\* A message of the conversation arrives.
onmessage == \E message \in TranscriptMessages : onmessageOf(message)

\* A message of the audio stream arrives.
onmessageAudio == \E message \in AudioMessages : onmessageOf(message)

\* The callback of setTimeout(..., 3000) starts: getInterviewSummary is called.
summaryTimeout ==
    /\ summaryCall.stage = "timer"
    /\ summaryCall' = [summaryCall EXCEPT !.stage = "request"]
    /\ voiceLastOp' = [op |-> "setTimeout"]
    /\ UNCHANGED <<voicePhase, voiceJobTitle, voiceHistory, voiceError,
                   voiceQuestionCount, isConnecting, session, voiceSummary,
                   isRecording, currentInputTranscription,
                   currentOutputTranscription, answeredTurns>>
    /\ UNCHANGED audioVars
    /\ UNCHANGED notVoice

\* await getInterviewSummary(...) of the timeout callback resolved
voiceSummaryResolved ==
    /\ summaryCall.stage = "request"
    /\ \E summaryResult \in Summaries : voiceSummary' = summaryResult
    /\ voicePhase' = "summary"
    /\ isConnecting' = FALSE
    /\ summaryCall' = NoCall
    /\ voiceLastOp' = [op |-> "getInterviewSummaryResolved"]
    /\ UNCHANGED <<voiceJobTitle, voiceHistory, voiceError, voiceQuestionCount,
                   session, isRecording, currentInputTranscription,
                   currentOutputTranscription, answeredTurns>>
    /\ UNCHANGED audioVars
    /\ UNCHANGED notVoice

\* await getInterviewSummary(...) of the timeout callback rejected: the
\* callback has no catch, the rejection is lost.
voiceSummaryRejected ==
    /\ summaryCall.stage = "request"
    /\ summaryCall' = NoCall
    /\ voiceLastOp' = [op |-> "getInterviewSummaryRejected"]
    /\ UNCHANGED <<voicePhase, voiceJobTitle, voiceHistory, voiceError,
                   voiceQuestionCount, isConnecting, session, voiceSummary,
                   isRecording, currentInputTranscription,
                   currentOutputTranscription, answeredTurns>>
    /\ UNCHANGED audioVars
    /\ UNCHANGED notVoice

\* resetInterview of the voice variant (the back button of the live screen,
\* "Try Another Role" of the summary screen), with its cleanUp()
voiceResetInterview ==
    /\ voicePhase \in {"live", "summary"}
    /\ session' = NoSession
    /\ outputAudioContext' = FALSE
    /\ voiceHistory' = <<>>
    /\ voiceError' = Null
    /\ voiceSummary' = NoSummary
    /\ voiceQuestionCount' = 0
    /\ voicePhase' = "setup"
    /\ isConnecting' = FALSE
    /\ isRecording' = FALSE
    /\ currentInputTranscription' = <<>>
    /\ currentOutputTranscription' = <<>>
    /\ voiceLastOp' = [op |-> "resetInterview"]
    /\ answeredTurns' = 0
    /\ UNCHANGED <<voiceJobTitle, summaryCall>>
    /\ UNCHANGED <<currentTime, nextStartTime, audioSources, scheduled>>
    /\ UNCHANGED notVoice

\* The clock of the output audio context advances.
tick ==
    /\ outputAudioContext
    /\ currentTime < MaxTime
    /\ currentTime' = currentTime + 1
    /\ voiceLastOp' = [op |-> "currentTime"]
    /\ UNCHANGED <<outputAudioContext, nextStartTime, audioSources, scheduled>>
    /\ UNCHANGED <<voicePhase, voiceJobTitle, voiceHistory, voiceError,
                   voiceQuestionCount, isConnecting, session, voiceSummary,
                   isRecording, currentInputTranscription,
                   currentOutputTranscription, summaryCall, answeredTurns>>
    /\ UNCHANGED notVoice

\* The 'ended' listener of a source whose playback is over
ended ==
    /\ \E source \in audioSources :
           /\ source.when + source.duration <= currentTime
           /\ audioSources' = audioSources \ {source}
    /\ voiceLastOp' = [op |-> "ended"]
    /\ UNCHANGED <<outputAudioContext, currentTime, nextStartTime, scheduled>>
    /\ UNCHANGED <<voicePhase, voiceJobTitle, voiceHistory, voiceError,
                   voiceQuestionCount, isConnecting, session, voiceSummary,
                   isRecording, currentInputTranscription,
                   currentOutputTranscription, summaryCall, answeredTurns>>
    /\ UNCHANGED notVoice

(***************************************************************************)
(* The voice interview: the form is filled and submitted, the connection   *)
(* delivers transcriptions and ends of turns, fails or closes, the summary *)
(* is requested, and the summary screen is left.                           *)
(***************************************************************************)
NextVoice ==
    \/ setVoiceJobTitle
    \/ voiceHandleStartInterview
    \/ onmessage
    \/ voiceOnerror
    \/ voiceOnclose
    \/ summaryTimeout
    \/ voiceSummaryResolved
    \/ voiceSummaryRejected
    \/ voiceResetInterview

SpecVoice == Init /\ [][NextVoice]_vars

(***************************************************************************)
(* The audio output of the voice interview: chunks and interruptions       *)
(* arrive while the clock of the audio context runs.                       *)
(***************************************************************************)
NextAudio ==
    \/ setVoiceJobTitle
    \/ voiceHandleStartInterview
    \/ onmessageAudio
    \/ voiceOnerror
    \/ tick
    \/ ended

SpecAudio == Init /\ [][NextAudio]_vars

(***************************************************************************)
(* The setup screens of the two variants of the interview: the forms are   *)
(* filled and submitted, the text variant's start request settles, the     *)
(* voice variant's connection is opened and fails.                         *)
(***************************************************************************)
NextSetup ==
    \/ setJobTitle
    \/ handleStartInterview
    \/ startInterviewResolved
    \/ startInterviewRejected
    \/ setVoiceJobTitle
    \/ voiceHandleStartInterview
    \/ voiceOnerror

SpecSetup == Init /\ [][NextSetup]_vars

(***************************************************************************)
(* Properties                                                              *)
(***************************************************************************)
\* model, user, model, ... starting with model
StrictlyAlternates(h) ==
    \A i \in DOMAIN h : h[i].role = IF i % 2 = 1 THEN "model" ELSE "user"

\* The step just taken completed request req.
Completed(req) == inflight' = inflight (-) SetToBag({req}) /\ inflight' # inflight

\* C1: questionCount is at most 5 and the history holds at most 5
\* model-authored messages, in every reachable state.
C1_QuestionBudget ==
    /\ questionCount <= totalQuestions
    /\ CountRole(history, "model") <= totalQuestions

\* C2, the states of the happy path: a summary request is only pending once
\* questionCount has reached 5; the live phase holds 1 to 5 questions and at
\* most 5 answers; the summary phase holds 5 questions, 5 answers and a summary.
C2_HappyStates ==
    /\ \A req \in BagToSet(inflight) :
          req.kind = "summary" => questionCount >= totalQuestions
    /\ phase = "setup" => history = <<>> /\ questionCount = 0
    /\ phase = "live" =>
          /\ questionCount \in 1..totalQuestions
          /\ CountRole(history, "model") = questionCount
          /\ CountRole(history, "user") <= totalQuestions
    /\ phase = "summary" =>
          /\ CountRole(history, "model") = totalQuestions
          /\ CountRole(history, "user") = totalQuestions
          /\ summary \in Summaries

\* C2, the steps of the happy path.
C2_HappySteps ==
    /\ lastOp'.op = "startInterviewResolved" =>
          phase = "setup" /\ phase' = "live" /\ Len(history') = 1
    /\ lastOp'.op = "handleAnswerSubmit" /\ inflight' # inflight =>
          \E req \in BagToSet(inflight') :
              /\ inflight' = inflight (+) SetToBag({req})
              /\ req.kind = IF CountRole(history', "user") = totalQuestions
                            THEN "summary" ELSE "next"
    /\ lastOp'.op = "getNextInterviewStepResolved" =>
          LET n == Len(history)
          IN  /\ phase = "live" /\ phase' = "live"
              /\ CountRole(history, "user") \in 1..(totalQuestions - 1)
              /\ history[n].role = "user" /\ ~HasFeedback(history[n])
              /\ Len(history') = n + 1
              /\ SubSeq(history', 1, n - 1) = SubSeq(history, 1, n - 1)
              /\ history'[n].role = "user"
              /\ history'[n].content = history[n].content
              /\ HasFeedback(history'[n]) /\ history'[n].feedback \in Feedbacks
              /\ history'[n + 1].role = "model"
              /\ questionCount' = questionCount + 1
    /\ lastOp'.op = "getInterviewSummaryResolved" =>
          /\ phase = "live" /\ phase' = "summary"
          /\ CountRole(history, "user") = totalQuestions
          /\ history' = history

\* C2: with every remote call succeeding, the phase becomes live when the
\* first question arrives, stays live through answers 1 to 4 (each getting
\* its feedback and exactly one new model question), and the 5th answer
\* issues the summary request and moves the phase to summary; no summary
\* request is issued while questionCount is below 5.
C2_HappyPath == []C2_HappyStates /\ [][C2_HappySteps]_vars

\* C2, reached: the summary phase after five answers.
C2_Witness ==
    /\ phase = "summary"
    /\ CountRole(history, "user") = totalQuestions
    /\ summary \in Summaries
    /\ lastOp.op = "getInterviewSummaryResolved"

\* C3: when the next-turn request or the summary request of a turn fails,
\* the history afterwards equals the history before that answer was submitted,
\* the phase remains live, an error message is set and questionCount is
\* unchanged (stated for the steps taken while the component is mounted).
C3_FailureRollsBack ==
    [][\A req \in BagToSet(inflight) :
          /\ mounted
          /\ lastOp'.op \in {"getNextInterviewStepRejected",
                             "getInterviewSummaryRejected"}
          /\ Completed(req)
          => /\ history' = SliceOffLast(req.history)
             /\ phase' = "live"
             /\ error' # Null
             /\ questionCount' = questionCount]_vars

\* C4: whenever the request for the first question fails, whichever action
\* issued it, the phase afterwards is setup, the history is empty,
\* questionCount is 0 and an error message is set.  Stated for the failure
\* that arrives while the summary is shown, which is where the request of
\* restartWithSameRole is pending.
C4_StartFailureInSetup ==
    mounted /\ lastOp = [op |-> "startInterviewRejected", from |-> "summary"] =>
        /\ phase = "setup"
        /\ history = <<>>
        /\ questionCount = 0
        /\ error # Null

C6_FeedbackOnUserOnly ==
    /\ \A i \in DOMAIN history :
          history[i].role = "model" => ~HasFeedback(history[i])
    /\ history # <<>> =>
          history[1].role = "model" /\ ~HasFeedback(history[1])

\* C7: in the live phase the history is non-empty, starts with a model
\* message and strictly alternates model, user, model, ...
C7_LiveAlternates ==
    phase = "live" => history # <<>> /\ StrictlyAlternates(history)

\* C8: in the summary phase with a summary stored, every user message but
\* the last carries feedback and the last user message carries none.
C8_FeedbackAtSummary ==
    phase = "summary" /\ summary # NoSummary =>
        \A i \in DOMAIN history :
            history[i].role = "user" =>
                (HasFeedback(history[i]) <=>
                    \E j \in DOMAIN history : j > i /\ history[j].role = "user")

\* C9: resetInterview yields phase setup, an empty history, no summary,
\* questionCount 0, no error, isLoading false and an empty draft answer.
C9_ResetClears ==
    lastOp.op = "resetInterview" =>
        /\ phase = "setup"
        /\ history = <<>>
        /\ summary = NoSummary
        /\ questionCount = 0
        /\ error = Null
        /\ isLoading = FALSE
        /\ currentAnswer = <<>>

\* C9, reached: a reset from the live phase while a request was pending.
C9_Witness ==
    /\ lastOp = [op |-> "resetInterview", from |-> "live"]
    /\ Pending > 0

\* C10: at most one remote request is outstanding at any time, and
\* isLoading is true whenever a request is outstanding.
C10_OneRequestAtATime ==
    mounted => Pending <= 1 /\ (Pending > 0 => isLoading)

(***************************************************************************)
(* C11: in the resume view, a submission whose resume text or job title is *)
(* empty or only whitespace issues no call of analyzeResume, sets the      *)
(* validation error, and leaves isLoading false and the stored analysis    *)
(* as it was.                                                              *)
(***************************************************************************)
C11_BlankSubmission ==
    [][(/\ resumeLastOp'.op = "handleSubmit"
        /\ (trim(resumeText) = <<>> \/ trim(resumeJobTitle) = <<>>))
       => /\ resumeInflight' = resumeInflight
          /\ resumeError' = ValidationError
          /\ resumeIsLoading' = FALSE
          /\ analysis' = analysis]_vars

\* A whitespace-only job title was submitted while an analysis was shown.
C11_Witness ==
    /\ resumeLastOp.op = "handleSubmit"
    /\ resumeJobTitle # <<>>
    /\ trim(resumeJobTitle) = <<>>
    /\ resumeError = ValidationError
    /\ analysis # NoAnalysis
    /\ resumeInflight = EmptyBag

(***************************************************************************)
(* C12: after a successful resume analysis, each of strengths, weaknesses, *)
(* atsKeywords and actionableImprovements, as stored in state and as       *)
(* rendered, has the length and the element order of the list of the       *)
(* response (each rendered element is the cleaned text of the element at   *)
(* the same position).                                                     *)
(***************************************************************************)
C12_ListsPreserved ==
    (/\ resumeLastOp.op = "analyzeResumeResolved"
     /\ HasRequired(resumeLastOp.outcome.text.value, resumeRequired))
    => \A f \in listFields :
          LET sent == resumeLastOp.outcome.text.value[f]
              stored == analysis[f]
              shown == FeedbackSection(stored)
          IN  /\ stored = sent
              /\ Len(shown) = Len(sent)
              /\ \A i \in DOMAIN sent : shown[i] = cleanMarkdown(sent[i])

\* An analysis with a two-element list has arrived and is on screen, its
\* first element shown without the asterisks.
C12_Witness ==
    /\ resumeLastOp.op = "analyzeResumeResolved"
    /\ resumeMounted
    /\ HasRequired(analysis, resumeRequired)
    /\ Len(analysis.strengths) = 2
    /\ analysis.weaknesses = <<>>
    /\ FeedbackSection(analysis.strengths) = <<<<"s">>, <<"t">>>>

\* The endpoint did not deliver a JSON document: the transport failed or
\* the body is not parseable.
NoDocument(outcome) == outcome.rejected \/ ~outcome.text.json

\* The call is the first turn of getInterviewResponse, the free-text request.
FreeTextCall == call.fn = "getInterviewResponse" /\ call.prompt.isFirstTurn

(***************************************************************************)
(* C13: for each of analyzeResume, getInterviewResponse and                *)
(* getInterviewSummary, a transport failure and a body that is not         *)
(* parseable JSON both end in the function's one fixed error, and no other *)
(* error reaches the caller.                                               *)
(***************************************************************************)
C13_OneError ==
    call.fn # "none" =>
        /\ NoDocument(call.outcome) => call.result = Thrown(ErrorOf(call.fn))
        /\ call.result.threw => call.result.error = ErrorOf(call.fn)

\* C13 as the code has it: the first turn of getInterviewResponse does not
\* parse the body, so there only a transport failure ends in the error and
\* any body is returned as the question; everywhere else as stated.
C13_OneErrorWhereParsed ==
    call.fn # "none" =>
        /\ call.outcome.rejected => call.result = Thrown(ErrorOf(call.fn))
        /\ (~FreeTextCall /\ NoDocument(call.outcome))
              => call.result = Thrown(ErrorOf(call.fn))
        /\ (FreeTextCall /\ ~call.outcome.rejected)
              => call.result = Returned([feedback |-> Null,
                                         nextQuestion |-> call.outcome.text])
        /\ call.result.threw => call.result.error = ErrorOf(call.fn)

\* A later turn of getInterviewResponse got a body that is not JSON and the
\* caller got the fixed error.
C13_Witness ==
    /\ call.fn = "getInterviewResponse"
    /\ ~call.prompt.isFirstTurn
    /\ ~call.outcome.rejected
    /\ ~call.outcome.text.json
    /\ call.result = Thrown(InterviewResponseError)

\* The document has the shape the function's responseSchema declares.
Conforms(fn, value) ==
    CASE fn = "analyzeResume" -> HasRequired(value, resumeRequired)
      [] fn = "getInterviewResponse" ->
            /\ HasRequired(value, interviewTurnRequired)
            /\ HasRequired(value.feedback, feedbackRequired)
      [] fn = "getInterviewSummary" -> HasRequired(value, interviewSummaryRequired)

(***************************************************************************)
(* C14: a schema-constrained call (analyzeResume, a later turn of          *)
(* getInterviewResponse, getInterviewSummary) whose response is            *)
(* well-formed JSON that lacks a required field fails with an error        *)
(* instead of returning a result.                                          *)
(***************************************************************************)
C14_NonconformingFails ==
    (/\ call.fn # "none"
     /\ ~FreeTextCall
     /\ ~NoDocument(call.outcome)
     /\ ~Conforms(call.fn, call.outcome.text.value))
    => call.result.threw

(***************************************************************************)
(* C15: every ResumeAnalysisResult stored in state has a score in 0..100,  *)
(* whatever document the endpoint answered with.                           *)
(***************************************************************************)
C15_ScoreInRange ==
    (analysis # NoAnalysis /\ "score" \in DOMAIN analysis)
    => analysis.score \in 0..100

\* This step is handleAnswerSubmit issuing the request req.
Issued(req) ==
    /\ lastOp'.op = "handleAnswerSubmit"
    /\ inflight' # inflight
    /\ inflight' = inflight (+) SetToBag({req})

(***************************************************************************)
(* C16: every next-turn request carries the transcript up to and including *)
(* the answer just submitted, the job title, and the company name and the  *)
(* job description whenever the user entered them.                         *)
(***************************************************************************)
C16_NextTurnRequest ==
    [][\A req \in BagToSet(inflight') :
          (Issued(req) /\ req.kind = "next")
          => /\ req.history = Append(history, UserMessage(currentAnswer))
             /\ req.jobTitle = jobTitle
             /\ companyName # <<>> => req.companyName = companyName
             /\ jobDescription # <<>> => req.jobDescription = jobDescription]_vars

\* The speaker a transcript line names for a message.
Speaker(msg) == IF msg.role = "user" THEN "Candidate" ELSE "Interviewer"

(***************************************************************************)
(* C17: the summary request carries the entire history, the final answer   *)
(* that triggered it included, in its original order: the history passed   *)
(* is the rendered history followed by the answer, and the transcript of   *)
(* the prompt has one line per message, in that order.                     *)
(***************************************************************************)
C17_SummaryRequest ==
    [][\A req \in BagToSet(inflight') :
          (Issued(req) /\ req.kind = "summary")
          => LET lines == SummaryPrompt(req.history, req.jobTitle).transcript
             IN  /\ req.history = Append(history, UserMessage(currentAnswer))
                 /\ Len(lines) = Len(history) + 1
                 /\ \A i \in DOMAIN history :
                        lines[i] = <<Speaker(history[i]), history[i].content>>
                 /\ lines[Len(lines)] = <<"Candidate", currentAnswer>>]_vars

\* The fifth answer has just been sent and its summary request is pending
\* with all ten messages.
C17_Witness ==
    /\ lastOp.op = "handleAnswerSubmit"
    /\ Len(history) = 2 * totalQuestions
    /\ \E req \in BagToSet(inflight) :
          req.kind = "summary" /\ req.history = history

(***************************************************************************)
(* C18: in every state in which no request is in flight, questionCount is  *)
(* the number of model-authored messages of the history.                   *)
(***************************************************************************)
C18_CountMatchesTranscript ==
    (mounted /\ Pending = 0) => questionCount = CountRole(history, "model")

\* The request req completes in this step after the session it was issued
\* in was reset: the history on screen is no longer the one it was sent with.
StaleCompletion(req) ==
    /\ mounted
    /\ req.kind \in {"next", "summary"}
    /\ Completed(req)
    /\ history # req.history

(***************************************************************************)
(* C20: a request that completes, with success or failure, after           *)
(* resetInterview ran while it was in flight does not modify the session:  *)
(* phase, history, questionCount and summary stay as they are, in the      *)
(* cleared setup state and in a new interview started in between.          *)
(***************************************************************************)
C20_StaleCompletionInert ==
    [][\A req \in BagToSet(inflight) :
          StaleCompletion(req)
          => /\ phase' = phase
             /\ history' = history
             /\ questionCount' = questionCount
             /\ summary' = summary]_vars

(***************************************************************************)
(* C19: in both interview variants, a start with an empty job title opens  *)
(* no request and no streaming connection, sets the error "Please enter a  *)
(* job title to begin.", and leaves phase, history and questionCount as    *)
(* they were.                                                              *)
(***************************************************************************)
C19_EmptyTitleStart ==
    [][/\ (/\ interviewVars' # interviewVars
           /\ lastOp'.op = "handleStartInterview"
           /\ jobTitle = <<>>)
          => /\ inflight' = inflight
             /\ error' = JobTitleRequired
             /\ phase' = phase
             /\ history' = history
             /\ questionCount' = questionCount
       /\ (/\ voiceVars' # voiceVars
           /\ voiceLastOp'.op = "handleStartInterview"
           /\ voiceJobTitle = <<>>)
          => /\ session' = session
             /\ isConnecting' = isConnecting
             /\ voiceError' = JobTitleRequired
             /\ voicePhase' = voicePhase
             /\ voiceHistory' = voiceHistory
             /\ voiceQuestionCount' = voiceQuestionCount]_vars

\* Both forms were submitted with the job title cleared after an earlier
\* start had failed: each shows the job title error and has nothing open.
C19_Witness ==
    /\ lastOp.op = "handleStartInterview"
    /\ jobTitle = <<>>
    /\ error = JobTitleRequired
    /\ inflight = EmptyBag
    /\ voiceLastOp.op = "handleStartInterview"
    /\ voiceJobTitle = <<>>
    /\ voiceError = JobTitleRequired
    /\ ~session.open
    /\ "jobTitle" \in DOMAIN session

\* The three ways the submission that issued req can end.
TurnAnswered(req) ==
    /\ phase' = "live"
    /\ Len(history') = Len(req.history) + 1
    /\ SubSeq(history', 1, Len(req.history) - 1)
          = SubSeq(req.history, 1, Len(req.history) - 1)
    /\ HasFeedback(history'[Len(req.history)])
    /\ history'[Len(req.history)].content = req.history[Len(req.history)].content
    /\ history'[Len(history')].role = "model"

InterviewSummarised == phase' = "summary" /\ summary' # NoSummary

TurnRolledBack(req) ==
    /\ phase' = "live"
    /\ error' # Null
    /\ history' = SliceOffLast(req.history)

(***************************************************************************)
(* C21: when the request of an answer submission returns, isLoading        *)
(* becomes false and the submission ends in exactly one of three ways:     *)
(* feedback attached to that answer and one model question appended with   *)
(* phase live; phase summary with a summary stored; an error set with the  *)
(* answer rolled back and phase live.                                      *)
(***************************************************************************)
C21_SubmissionOutcome ==
    [][\A req \in BagToSet(inflight) :
          (req.kind \in {"next", "summary"} /\ Completed(req))
          => /\ isLoading' = FALSE
             /\ \/ TurnAnswered(req) /\ ~InterviewSummarised /\ ~TurnRolledBack(req)
                \/ InterviewSummarised /\ ~TurnAnswered(req) /\ ~TurnRolledBack(req)
                \/ TurnRolledBack(req) /\ ~TurnAnswered(req) /\ ~InterviewSummarised]_vars

(***************************************************************************)
(* C22: handleAnswerSubmit with an empty or whitespace-only draft issues   *)
(* no request and leaves history, questionCount, phase, isLoading, error   *)
(* and the draft as they were.                                             *)
(***************************************************************************)
C22_BlankDraft ==
    [][(lastOp'.op = "handleAnswerSubmit" /\ trim(currentAnswer) = <<>>)
       => /\ inflight' = inflight
          /\ history' = history
          /\ questionCount' = questionCount
          /\ phase' = phase
          /\ isLoading' = isLoading
          /\ error' = error
          /\ currentAnswer' = currentAnswer]_vars

\* A whitespace-only draft was submitted in the live phase: it is still in
\* the textarea and nothing is pending.
C22_Witness ==
    /\ mounted
    /\ lastOp = [op |-> "handleAnswerSubmit", from |-> "live"]
    /\ currentAnswer = <<" ">>
    /\ history = <<ModelMessage(<<"q">>)>>
    /\ ~isLoading
    /\ Pending = 0

(***************************************************************************)
(* C23: in every state with phase summary a summary is stored, also after  *)
(* restartWithSameRole is clicked and while or after its start request     *)
(* completes or fails.                                                     *)
(***************************************************************************)
C23_SummaryStored == (mounted /\ phase = "summary") => summary # NoSummary

(***************************************************************************)
(* C24: an error set by a failed turn is not cleared by later answer       *)
(* submissions: neither handleAnswerSubmit nor the success of its request  *)
(* changes error, and a set error is cleared only by a step in which       *)
(* handleStartInterview ran (from the form or from restartWithSameRole) or *)
(* by resetInterview.                                                      *)
(***************************************************************************)
C24_ErrorOutlivesRetry ==
    [][/\ lastOp'.op \in {"handleAnswerSubmit", "getNextInterviewStepResolved",
                          "getInterviewSummaryResolved"}
          => error' = error
       /\ (error # Null /\ error' = Null)
          => lastOp'.op \in {"handleStartInterview", "restartWithSameRole",
                             "resetInterview"}]_vars

\* A turn failed, the answer was sent again and answered: the error of the
\* failed turn is still set in the live phase.
C24_Witness ==
    /\ mounted
    /\ phase = "live"
    /\ lastOp.op = "getNextInterviewStepResolved"
    /\ error = InterviewResponseError
    /\ Len(history) = 3
    /\ HasFeedback(history[2])
    /\ Pending = 0


(***************************************************************************)
(* The voice interview                                                     *)
(***************************************************************************)
\* This step is the onmessage callback processing a message.
Processed == voiceVars' # voiceVars /\ voiceLastOp'.op = "onmessage"

\* This step is the onmessage callback processing a turnComplete message.
TurnCompleted == Processed /\ voiceLastOp'.message.turnComplete

\* The messages the texts of a finished turn add to the transcript
TurnMessages(input, output) ==
    (IF input # <<>> THEN <<UserMessage(input)>> ELSE <<>>)
    \o (IF output # <<>> THEN <<ModelMessage(output)>> ELSE <<>>)

(***************************************************************************)
(* C25: transcription fragments are appended to the accumulators in        *)
(* arrival order, and a turnComplete message appends the input accumulated *)
(* since the previous turnComplete to the history as a user message, then  *)
(* the accumulated output as a model message, and empties both             *)
(* accumulators. Stated for messages that carry either transcriptions or   *)
(* turnComplete.                                                           *)
(***************************************************************************)
C25_TranscriptAppended ==
    [][/\ (Processed /\ ~voiceLastOp'.message.turnComplete)
          => /\ currentInputTranscription' =
                    currentInputTranscription \o voiceLastOp'.message.inputTranscription
             /\ currentOutputTranscription' =
                    currentOutputTranscription \o voiceLastOp'.message.outputTranscription
       /\ (/\ TurnCompleted
           /\ voiceLastOp'.message.inputTranscription = <<>>
           /\ voiceLastOp'.message.outputTranscription = <<>>)
          => /\ voiceHistory' =
                    voiceHistory
                    \o TurnMessages(currentInputTranscription, currentOutputTranscription)
             /\ currentInputTranscription' = <<>>
             /\ currentOutputTranscription' = <<>>]_vars


(***************************************************************************)
(* C26: after a start with a non-empty job title, processing the first     *)
(* turnComplete message sets isConnecting to false, moves the phase from   *)
(* setup to live, stops the timer that rotates the loading message and     *)
(* starts the recording (or reports that the microphone was refused).      *)
(* Stated for a turnComplete that is the first message of the connection.  *)
(***************************************************************************)
C26_FirstTurnGoesLive ==
    [][(/\ TurnCompleted
        /\ voiceLastOp.op = "handleStartInterview"
        /\ trim(voiceJobTitle) # <<>>)
       => /\ isConnecting' = FALSE
          /\ voicePhase = "setup"
          /\ voicePhase' = "live"
          /\ session'.interval = FALSE
          /\ isRecording' \/ voiceError' = MicrophoneError]_vars


(***************************************************************************)
(* C27: questionCount increases by exactly one with every turnComplete     *)
(* message processed, and never exceeds totalQuestions.                    *)
(***************************************************************************)
C27_CountsTurns ==
    [][/\ TurnCompleted => voiceQuestionCount' = voiceQuestionCount + 1
       /\ voiceQuestionCount' <= totalQuestions]_vars


(***************************************************************************)
(* C28: when the 5th turnComplete that ends a turn with user input is      *)
(* processed, recording stops, the connection is closed and the summary    *)
(* timer is armed with a request for the full transcript: the earlier      *)
(* messages, then the final user input, then the final model output.       *)
(* Stated for turnComplete messages that carry no transcription.           *)
(***************************************************************************)
C28_FifthTurnSummarises ==
    [][(/\ TurnCompleted
        /\ voiceLastOp'.message.inputTranscription = <<>>
        /\ voiceLastOp'.message.outputTranscription = <<>>
        /\ currentInputTranscription # <<>>
        /\ answeredTurns = totalQuestions - 1)
       => /\ isRecording' = FALSE
          /\ session'.open = FALSE
          /\ summaryCall'.stage = "timer"
          /\ summaryCall'.history =
                 voiceHistory
                 \o <<UserMessage(currentInputTranscription),
                      ModelMessage(currentOutputTranscription)>>]_vars


(***************************************************************************)
(* C29: when the summary request of the voice interview fails, an error    *)
(* message is set and isConnecting returns to false (the full-screen       *)
(* loader is removed).                                                     *)
(***************************************************************************)
C29_SummaryFailureSurfaced ==
    [][(voiceVars' # voiceVars /\ voiceLastOp'.op = "getInterviewSummaryRejected")
       => /\ voiceError' # Null
          /\ isConnecting' = FALSE]_vars


(***************************************************************************)
(* The audio output                                                        *)
(***************************************************************************)
\* When the playback of a source is over
End(source) == source.when + source.duration

\* The sources play one after the other, in the order they were started.
NonOverlapping(sources) ==
    \A s1, s2 \in sources : s1.id < s2.id => End(s1) <= s2.when

(***************************************************************************)
(* C30: an audio chunk is started at max(nextStartTime, currentTime),      *)
(* where nextStartTime is the end of the previous chunk unless an          *)
(* interruption has reset it to 0, and nextStartTime then advances by the  *)
(* chunk's duration; the active sources are in arrival order and do not    *)
(* overlap; after a message flagged interrupted is processed no source is  *)
(* active and nextStartTime is 0, also when that message carried audio.    *)
(***************************************************************************)
C30_AudioScheduled ==
    [][/\ (Processed /\ voiceLastOp'.message.audio > 0 /\ outputAudioContext)
          => /\ Len(scheduled') = Len(scheduled) + 1
             /\ LET chunk == scheduled'[Len(scheduled')]
                IN  /\ chunk.when = Max(nextStartTime, currentTime)
                    /\ chunk.duration = voiceLastOp'.message.audio
                    /\ ~voiceLastOp'.message.interrupted
                       => /\ nextStartTime' = chunk.when + chunk.duration
                          /\ audioSources' = audioSources \cup {chunk}
       /\ (Processed /\ voiceLastOp'.message.interrupted)
          => audioSources' = {} /\ nextStartTime' = 0
       /\ nextStartTime' = 0
          \/ (scheduled' # <<>> /\ nextStartTime' = End(scheduled'[Len(scheduled')]))
       /\ NonOverlapping(audioSources')]_vars

\* Two chunks were played back to back after the clock had advanced, then a
\* message carrying a third chunk and flagged interrupted was processed.
C30_Witness ==
    /\ voiceLastOp.op = "onmessage"
    /\ voiceLastOp.message.audio > 0
    /\ voiceLastOp.message.interrupted
    /\ Len(scheduled) = 3
    /\ scheduled[1].when > 0
    /\ scheduled[2].when = End(scheduled[1])
    /\ scheduled[3].when = End(scheduled[2])
    /\ audioSources = {}
    /\ nextStartTime = 0


=============================================================================
